---- MODULE Spec2Model ----
(***************************************************************************)
(* Portfolio tracker backend (backend/index.js): the price cache           *)
(* (fetchCurrentPrice), the trade routes (POST /api/trades, DELETE         *)
(* /api/trades/:id) and the aggregated portfolio (GET /api/portfolio).     *)
(* Portfolio tracker frontend (App.jsx): the loads of the two lists and    *)
(* the submission of a trade, as far as they set fetchError.               *)
(*                                                                         *)
(* Numbers are fixed-point integers in units of 1/Scale (four decimals,    *)
(* the resolution of toFixed(4)).  Strings are sequences of one-character  *)
(* strings, so that toUpperCase and parseFloat are computed, not assumed.  *)
(* Node runs one callback at a time: an action is one run-to-completion    *)
(* segment of a handler, from the event that wakes it to its next network  *)
(* await (or to its response).                                             *)
(***************************************************************************)
EXTENDS Integers, Sequences, FiniteSets, TLC

\* ---------------------------------------------------------------- bounds
\* clock ticks per TTL: the clock advances in steps of CACHE_TTL_MS / TicksPerTTL
TicksPerTTL == 2
\* the clock stops advancing after MaxTicks ticks
MaxTicks == 2
\* portfolio requests that may be in flight at once
NumRequests == 2
\* trades ever inserted into the ledger (serial ids 1..MaxTrades)
MaxTrades == 2
\* ticks of the clock where a request is followed across more than one TTL
MaxTicksLong == 3
\* trades submitted from the form of the frontend
MaxSubmits == 2

\* ------------------------------------------------------------- constants
CACHE_TTL_MS == 60000
Scale == 10000

TickMs == CACHE_TTL_MS \div TicksPerTTL

\* ---------------------------------------------------------------- values
\* JavaScript values that are not finite numbers, and a finite number v/Scale
Null == [t |-> "null"]
Undefined == [t |-> "undefined"]
NaN == [t |-> "NaN"]
Num(v) == [t |-> "num", v |-> v]
IsNum(x) == x.t = "num"

\* ----------------------------------------------------------- strings
Lower == <<"a","b","c","d","e","f","g","h","i","j","k","l","m",
           "n","o","p","q","r","s","t","u","v","w","x","y","z">>
Upper == <<"A","B","C","D","E","F","G","H","I","J","K","L","M",
           "N","O","P","Q","R","S","T","U","V","W","X","Y","Z">>
Digits == <<"0","1","2","3","4","5","6","7","8","9">>

UpperChar(c) ==
  IF \E i \in DOMAIN Lower : Lower[i] = c
  THEN Upper[CHOOSE i \in DOMAIN Lower : Lower[i] = c]
  ELSE c

\* String.prototype.toUpperCase
ToUpperCase(s) == [i \in DOMAIN s |-> UpperChar(s[i])]

IsDigit(c) == \E i \in DOMAIN Digits : Digits[i] = c
DigitVal(c) == (CHOOSE i \in DOMAIN Digits : Digits[i] = c) - 1

\* number of consecutive digit characters of s from position i on
RECURSIVE DigitsLen(_, _)
DigitsLen(s, i) ==
  IF i <= Len(s) /\ IsDigit(s[i]) THEN 1 + DigitsLen(s, i + 1) ELSE 0

\* value of the n digits of s from position i on
RECURSIVE DigitsVal(_, _, _)
DigitsVal(s, i, n) ==
  IF n = 0 THEN 0
  ELSE 10 * DigitsVal(s, i, n - 1) + DigitVal(s[i + n - 1])

\* the first FracDigits fractional digits of s (from position i, n present), as an
\* integer number of 1/Scale
RECURSIVE FracVal(_, _, _, _)
FracVal(s, i, n, place) ==
  IF place = 0 THEN 0
  ELSE (IF n > 0 THEN DigitVal(s[i]) * place ELSE 0)
       + FracVal(s, i + 1, IF n > 0 THEN n - 1 ELSE 0, place \div 10)

RECURSIVE SkipSpaces(_, _)
SkipSpaces(s, i) ==
  IF i <= Len(s) /\ s[i] = " " THEN SkipSpaces(s, i + 1) ELSE i

\* parseFloat: leading blanks, an optional sign, the longest decimal prefix; NaN
\* when there is no digit.  Digits past the fourth decimal are dropped.
ParseFloat(s) ==
  LET b == SkipSpaces(s, 1)
      neg == b <= Len(s) /\ s[b] = "-"
      signed == b <= Len(s) /\ s[b] \in {"-", "+"}
      st == IF signed THEN b + 1 ELSE b
      n1 == DigitsLen(s, st)
      dot == st + n1 <= Len(s) /\ s[st + n1] = "."
      n2 == IF dot THEN DigitsLen(s, st + n1 + 1) ELSE 0
      mag == DigitsVal(s, st, n1) * Scale
             + FracVal(s, st + n1 + 1, n2, Scale \div 10)
  IN IF n1 + n2 = 0 THEN NaN ELSE Num(IF neg THEN 0 - mag ELSE mag)

\* decimal digits of a natural number
RECURSIVE NatDigits(_)
NatDigits(n) ==
  IF n < 10 THEN <<Digits[n + 1]>>
  ELSE Append(NatDigits(n \div 10), Digits[(n % 10) + 1])

RECURSIVE FracDigits(_, _)
FracDigits(f, place) ==
  IF place = 0 THEN <<>>
  ELSE <<Digits[(f \div place) + 1]>> \o FracDigits(f % place, place \div 10)

\* the text node-postgres hands back for a NUMERIC column: sign, integer part,
\* point, four decimals
NumericText(v) ==
  LET mag == IF v < 0 THEN 0 - v ELSE v
  IN (IF v < 0 THEN <<"-">> ELSE <<>>)
     \o NatDigits(mag \div Scale) \o <<".">>
     \o FracDigits(mag % Scale, Scale \div 10)


\* ------------------------------------------------------- more JS values
Str(s) == [t |-> "str", s |-> s]
Obj(o) == [t |-> "obj", o |-> o]

\* ToBoolean: undefined, null, NaN, 0 and "" are falsy
Truthy(x) ==
  CASE x.t = "num" -> x.v # 0
    [] x.t = "str" -> Len(x.s) > 0
    [] x.t = "obj" -> TRUE
    [] OTHER -> FALSE

NoTime == 0 - 1
Max(a, b) == IF a >= b THEN a ELSE b

\* x / d rounded to the nearest integer, halves away from zero
RoundDiv(x, d) ==
  LET mag == IF x < 0 THEN 0 - x ELSE x
      q == (2 * mag + d) \div (2 * d)
  IN IF x < 0 THEN 0 - q ELSE q

BUY == <<"B", "U", "Y">>
SELL == <<"S", "E", "L", "L">>

\* ------------------------------------------------------------- inputs
\* request bodies of POST /api/trades: each field may be missing
SymbolInputs == {Undefined, Str(<<"a">>), Str(<<"B">>)}
QuantityInputs == {Undefined, Num(0), Num(Scale), Num(0 - Scale)}
PriceInputs == {Undefined, Num(Scale), Num(2 * Scale)}
TypeInputs == {Undefined, Str(<<"b", "u", "y">>), Str(SELL), Str(<<"h", "o", "l", "d">>)}
Bodies == [symbol : SymbolInputs, quantity : QuantityInputs,
           price : PriceInputs, type : TypeInputs]

\* the property names of priceCache: the symbols as they are spelled and as
\* line 26 upper-cases them
Spellings == {x.s : x \in {y \in SymbolInputs : y.t = "str"}}
Keys == Spellings \cup {ToUpperCase(s) : s \in Spellings}

\* what the quote provider can answer: the request fails (network error,
\* timeout, a body that is not JSON), or a JSON body with or without a
\* 'Global Quote' object, with or without its '05. price' string
PriceTexts == {<<>>, <<"x">>, <<"0">>, <<"2", ".", "5">>}
Payloads ==
  {[quote |-> Undefined], [quote |-> Obj([price |-> Undefined])]}
  \cup {[quote |-> Obj([price |-> Str(p)])] : p \in PriceTexts}
Outcomes == {[k |-> "raise"]} \cup {[k |-> "data", data |-> d] : d \in Payloads}
NoOutcome == [k |-> "none"]

\* -------------------------------------------------------------- state
VARIABLES
  ledger,      \* table trades, in insertion order: [id, symbol, quantity, price, type]
  nextId,      \* the next serial id of table trades
  tradeRes,    \* the response of POST /api/trades sent by the last step, if any
  priceCache,  \* priceCache: key -> undefined | [price, ts]
  apiKey,      \* whether process.env.ALPHA_VANTAGE_KEY is set
  clock,       \* Date.now()
  req,         \* the GET /api/portfolio handlers in flight, by slot
  resp,        \* the response of GET /api/portfolio sent by the last step, if any
  finished,    \* the calls of fetchCurrentPrice that returned in the last step
  hist,        \* history per key: lastIssue, raced, lastFail, failedLast
  app          \* the frontend: the state of the App component and its requests

backend == <<ledger, nextId, tradeRes, priceCache, apiKey, clock, req, resp, finished, hist>>
vars == <<ledger, nextId, tradeRes, priceCache, apiKey, clock, req, resp, finished, hist,
          app>>

Requests == 1 .. NumRequests

\* ------------------------------------------------- fetchCurrentPrice
\* line 31 with the TTL taken for seconds
IsFreshSeconds(cached, now) ==
  cached # Undefined /\ now - cached.ts < CACHE_TTL_MS \div 1000

\* line 31 with the comparison turned round
IsFreshInverted(cached, now) ==
  cached # Undefined /\ now - cached.ts > CACHE_TTL_MS

\* line 31 without the age test
IsFreshForever(cached, now) == cached # Undefined

\* line 31 with <= for <
IsFreshInclusive(cached, now) ==
  cached # Undefined /\ now - cached.ts <= CACHE_TTL_MS

\* line 31 with half the TTL
IsFreshHalf(cached, now) ==
  cached # Undefined /\ now - cached.ts < CACHE_TTL_MS \div 2

\* line 31: cached && now - cached.ts < CACHE_TTL_MS
IsFresh(cached, now) == cached # Undefined /\ now - cached.ts < CACHE_TTL_MS

\* line 36 / line 56: the entry stored when no price could be had
AbsentEntry(now) == [price |-> Null, ts |-> now]

\* lines 25-45 with the symbol itself as the key (line 26 without toUpperCase)
fetchCurrentPriceRawKey(cache, symbol, now) ==
  LET key == symbol
      cached == cache[key]
  IN IF cached # Undefined /\ now - cached.ts < CACHE_TTL_MS
     THEN [k |-> "return", key |-> key, price |-> cached.price, cache |-> cache]
     ELSE IF ~apiKey
     THEN [k |-> "return", key |-> key, price |-> Null,
           cache |-> [cache EXCEPT ![key] = [price |-> Null, ts |-> now]]]
     ELSE [k |-> "await", key |-> key, price |-> Null, cache |-> cache]

\* lines 25-45 without the credential test of line 34
fetchCurrentPriceNoKeyTest(cache, symbol, now) ==
  LET key == ToUpperCase(symbol)
      cached == cache[key]
  IN IF cached # Undefined /\ now - cached.ts < CACHE_TTL_MS
     THEN [k |-> "return", key |-> key, price |-> cached.price, cache |-> cache]
     ELSE [k |-> "await", key |-> key, price |-> Null, cache |-> cache]

\* lines 25-45, up to the first await: the cached price, or null without a
\* credential, or a suspension on the request to the quote provider
fetchCurrentPrice(cache, symbol, now) ==
  LET key == ToUpperCase(symbol)
      cached == cache[key]
  IN IF IsFresh(cached, now)
     THEN [k |-> "return", key |-> key, price |-> cached.price, cache |-> cache]
     ELSE IF ~apiKey
     THEN [k |-> "return", key |-> key, price |-> Null,
           cache |-> [cache EXCEPT ![key] = AbsentEntry(now)]]
     ELSE [k |-> "await", key |-> key, price |-> Null, cache |-> cache]

\* lines 48-50: data['Global Quote'] || {}, quote['05. price'] ?? null,
\* priceStr ? parseFloat(priceStr) : null
ParsePrice(data) ==
  LET quote == IF Truthy(data.quote) THEN data.quote ELSE Obj([price |-> Undefined])
      priceStr == IF quote.o.price \in {Undefined, Null} THEN Null ELSE quote.o.price
  IN IF Truthy(priceStr) THEN ParseFloat(priceStr.s) ELSE Null

\* lines 45-58 with a catch block that stores nothing
fetchCurrentPriceResumeNoStore(cache, key, now, outcome) ==
  IF outcome.k = "raise"
  THEN [price |-> Null, cache |-> cache]
  ELSE LET price == ParsePrice(outcome.data)
       IN [price |-> price,
           cache |-> [cache EXCEPT ![key] = [price |-> price, ts |-> now]]]

\* lines 45-58 with a catch block that renews the timestamp and keeps the price
fetchCurrentPriceResumeKeepPrice(cache, key, now, outcome) ==
  IF outcome.k = "raise"
  THEN [price |-> Null,
        cache |-> [cache EXCEPT ![key] =
                     [price |-> IF @ = Undefined THEN Null ELSE @.price,
                      ts |-> now]]]
  ELSE LET price == ParsePrice(outcome.data)
       IN [price |-> price,
           cache |-> [cache EXCEPT ![key] = [price |-> price, ts |-> now]]]

\* lines 45-58, from the provider's answer on: `now` is the time read at line 27
fetchCurrentPriceResume(cache, key, now, outcome) ==
  IF outcome.k = "raise"
  THEN [price |-> Null, cache |-> [cache EXCEPT ![key] = AbsentEntry(now)]]
  ELSE LET price == ParsePrice(outcome.data)
       IN [price |-> price,
           cache |-> [cache EXCEPT ![key] = [price |-> price, ts |-> now]]]


\* ------------------------------------------------------- the ledger
\* lines 76-79: INSERT INTO trades (symbol, quantity, price, type), the symbol and
\* the type upper-cased; the row gets the next serial id
Insert(trades, id, body) ==
  Append(trades, [id |-> id,
                  symbol |-> ToUpperCase(body.symbol.s),
                  quantity |-> body.quantity.v,
                  price |-> body.price.v,
                  type |-> ToUpperCase(body.type.s)])

\* line 143: DELETE FROM trades WHERE id = $1
RECURSIVE DeleteWhereId(_, _)
DeleteWhereId(trades, id) ==
  IF trades = <<>> THEN <<>>
  ELSE IF Head(trades).id = id THEN DeleteWhereId(Tail(trades), id)
  ELSE <<Head(trades)>> \o DeleteWhereId(Tail(trades), id)

\* line 104: CASE WHEN type='BUY' THEN quantity ELSE -quantity END
SignedQuantity(t) == IF t.type = BUY THEN t.quantity ELSE 0 - t.quantity

\* GROUP BY symbol: the groups, in order of first appearance (SQL leaves the
\* order open)
RECURSIVE GroupSymbols(_, _)
GroupSymbols(trades, seen) ==
  IF trades = <<>> THEN seen
  ELSE GroupSymbols(Tail(trades),
         IF \E i \in DOMAIN seen : seen[i] = Head(trades).symbol
         THEN seen ELSE Append(seen, Head(trades).symbol))

\* SUM(CASE ...) over the group of sym
RECURSIVE SumSigned(_, _)
SumSigned(trades, sym) ==
  IF trades = <<>> THEN 0
  ELSE (IF Head(trades).symbol = sym THEN SignedQuantity(Head(trades)) ELSE 0)
       + SumSigned(Tail(trades), sym)

RECURSIVE SumPrice(_, _)
SumPrice(trades, sym) ==
  IF trades = <<>> THEN 0
  ELSE (IF Head(trades).symbol = sym THEN Head(trades).price ELSE 0)
       + SumPrice(Tail(trades), sym)

RECURSIVE CountGroup(_, _)
CountGroup(trades, sym) ==
  IF trades = <<>> THEN 0
  ELSE (IF Head(trades).symbol = sym THEN 1 ELSE 0) + CountGroup(Tail(trades), sym)

\* line 105 averaging the prices of the BUY records only
AvgPriceOfBuys(trades, sym) ==
  LET buys == SelectSeq(trades, LAMBDA t : t.type = BUY)
  IN IF CountGroup(buys, sym) = 0 THEN 0
     ELSE RoundDiv(SumPrice(buys, sym), CountGroup(buys, sym))

\* AVG(price) over the group of sym, to four decimals
AvgPrice(trades, sym) == RoundDiv(SumPrice(trades, sym), CountGroup(trades, sym))

\* line 108 keeping long positions only
HavingPositive(net) == net > 0

\* line 108: HAVING SUM(...) <> 0
Having(net) == net # 0

RECURSIVE SelectGroups(_, _)
SelectGroups(trades, syms) ==
  IF syms = <<>> THEN <<>>
  ELSE LET sym == Head(syms)
           net == SumSigned(trades, sym)
       IN (IF Having(net)
           THEN <<[symbol |-> sym,
                   net_qty |-> Str(NumericText(net)),
                   avg_price |-> Str(NumericText(AvgPrice(trades, sym)))]>>
           ELSE <<>>)
          \o SelectGroups(trades, Tail(syms))

\* lines 102-111: the rows of the aggregate query; NUMERIC columns come as text
Aggregate(trades) == SelectGroups(trades, GroupSymbols(trades, <<>>))

\* ----------------------------------------------------- the combiner
\* line 120 testing the price for truth instead of for null
MarketValueTruthy(netQty, currentPrice) ==
  IF Truthy(currentPrice)
  THEN Num(RoundDiv(netQty.v * currentPrice.v, Scale))
  ELSE Null

\* line 120: currentPrice !== null ? Number((netQty * currentPrice).toFixed(4)) : null
MarketValue(netQty, currentPrice) ==
  IF currentPrice # Null
  THEN IF IsNum(netQty) /\ IsNum(currentPrice)
       THEN Num(RoundDiv(netQty.v * currentPrice.v, Scale))
       ELSE NaN
  ELSE Null

\* lines 116-128: one element of portfolio
PortfolioRow(r, currentPrice) ==
  LET netQty == ParseFloat(r.net_qty.s)
  IN [symbol |-> r.symbol,
      netQty |-> netQty,
      avgPrice |-> IF r.avg_price # Null THEN ParseFloat(r.avg_price.s) ELSE Null,
      currentPrice |-> currentPrice,
      marketValue |-> MarketValue(netQty, currentPrice)]

\* the + of two values that are numbers, NaN or null: null counts as 0
Plus(a, b) ==
  IF a = NaN \/ b = NaN THEN NaN
  ELSE Num((IF IsNum(a) THEN a.v ELSE 0) + (IF IsNum(b) THEN b.v ELSE 0))

\* line 131 without its `|| 0`
AddMarketValueRaw(acc, p) == Plus(acc, p.marketValue)

\* line 131: the callback of reduce, acc + (p.marketValue || 0)
AddMarketValue(acc, p) ==
  Plus(acc, IF Truthy(p.marketValue) THEN p.marketValue ELSE Num(0))

RECURSIVE Reduce(_, _)
Reduce(portfolio, acc) ==
  IF portfolio = <<>> THEN acc
  ELSE Reduce(Tail(portfolio), AddMarketValue(acc, Head(portfolio)))

\* line 131: portfolio.reduce(..., 0)
TotalValue(portfolio) == Reduce(portfolio, Num(0))


\* ------------------------------------------- GET /api/portfolio, the loop
\* what is remembered of one call of fetchCurrentPrice: its key, the time it read,
\* the entry it found, and the history of its key when it started
NoCall == [symbol |-> <<>>, key |-> <<>>, now |-> 0, cached |-> Undefined,
           prevIssue |-> NoTime, lastFail |-> NoTime, failedLast |-> FALSE]

\* what a handler met when it started: the time and the cache
NoStart == [now |-> 0, cache |-> [k \in Keys |-> Undefined]]

Idle == [pc |-> "idle", rows |-> <<>>, i |-> 0, portfolio |-> <<>>,
         pending |-> NoCall, asOf |-> <<>>, start |-> NoStart]

NoResp == [status |-> 0, portfolio |-> <<>>, totalValue |-> Num(0), asOf |-> <<>>,
           start |-> NoStart]
NoTradeRes == [status |-> 0, missing |-> FALSE]

\* another handler is awaiting the provider's answer for key
InFlight(key, r) ==
  \E q \in Requests \ {r} : req[q].pc = "fetching" /\ req[q].pending.key = key

\* a finished call: how many requests it sent to the provider, the answer it
\* got, what it returned and the entry it left
Completed(call, calls, outcome, ret, after) ==
  [symbol |-> call.symbol, key |-> call.key, now |-> call.now,
   cached |-> call.cached,
   prevIssue |-> call.prevIssue, lastFail |-> call.lastFail,
   failedLast |-> call.failedLast,
   calls |-> calls, outcome |-> outcome, ret |-> ret, after |-> after]

\* lines 115-129 from row i on, at time now, until fetchCurrentPrice awaits the
\* provider or the rows are exhausted.  A call that returns without network I/O
\* resumes the loop in the same turn of the event loop.
RECURSIVE RunLoop(_, _, _, _, _, _, _, _)
RunLoop(r, rows, i, portfolio, trace, cache, h, now) ==
  IF i > Len(rows)
  THEN [pc |-> "done", i |-> i, portfolio |-> portfolio, trace |-> trace,
        cache |-> cache, hist |-> h, pending |-> NoCall]
  ELSE
    LET res == fetchCurrentPrice(cache, rows[i].symbol, now)
        key == res.key
        call == [symbol |-> rows[i].symbol, key |-> key, now |-> now,
                 cached |-> cache[key],
                 prevIssue |-> h[key].lastIssue, lastFail |-> h[key].lastFail,
                 failedLast |-> h[key].failedLast]
    IN IF res.k = "await"
       THEN [pc |-> "fetching", i |-> i, portfolio |-> portfolio, trace |-> trace,
             cache |-> cache,
             hist |-> [h EXCEPT ![key].lastIssue = now,
                                ![key].raced = @ \/ InFlight(key, r)],
             pending |-> call]
       ELSE RunLoop(r, rows, i + 1,
                    Append(portfolio, PortfolioRow(rows[i], res.price)),
                    Append(trace, Completed(call, 0, NoOutcome, res.price,
                                            res.cache[key])),
                    res.cache, h, now)

\* the handler of slot r after a segment: suspended again, or lines 131-132
Settle(r, rows, asOf, start, out) ==
  /\ priceCache' = out.cache
  /\ hist' = out.hist
  /\ finished' = out.trace
  /\ tradeRes' = NoTradeRes
  /\ IF out.pc = "done"
     THEN /\ req' = [req EXCEPT ![r] = Idle]
          /\ resp' = [status |-> 200, portfolio |-> out.portfolio,
                      totalValue |-> TotalValue(out.portfolio), asOf |-> asOf,
                      start |-> start]
     ELSE /\ req' = [req EXCEPT ![r] =
                       [pc |-> "fetching", rows |-> rows, i |-> out.i,
                        portfolio |-> out.portfolio,
                        pending |-> out.pending, asOf |-> asOf,
                        start |-> start]]
          /\ resp' = NoResp

\* ------------------------------------------------------------- actions
\* lines 100-132: a GET /api/portfolio arrives, its query runs on the ledger as
\* it is, and the loop starts.  Slots are anonymous: the lowest free one is taken.
GetPortfolio(r) ==
  /\ req[r].pc = "idle"
  /\ \A q \in Requests : q < r => req[q].pc # "idle"
  /\ Settle(r, Aggregate(ledger), ledger, [now |-> clock, cache |-> priceCache],
            RunLoop(r, Aggregate(ledger), 1, <<>>, <<>>, priceCache, hist, clock))
  /\ UNCHANGED <<ledger, nextId, apiKey, clock, app>>

\* lines 45-58 and the loop after them: the provider's answer to the request of
\* slot r arrives
FetchReturn(r, outcome) ==
  /\ req[r].pc = "fetching"
  /\ LET s == req[r]
         call == s.pending
         res == fetchCurrentPriceResume(priceCache, call.key, call.now, outcome)
         h == IF outcome.k = "raise"
              THEN [hist EXCEPT ![call.key].lastFail = Max(@, call.now),
                                ![call.key].failedLast = TRUE]
              ELSE [hist EXCEPT ![call.key].failedLast = FALSE]
     IN Settle(r, s.rows, s.asOf, s.start,
               RunLoop(r, s.rows, s.i + 1,
                       Append(s.portfolio, PortfolioRow(s.rows[s.i], res.price)),
                       <<Completed(call, 1, outcome, res.price,
                                   res.cache[call.key])>>,
                       res.cache, h, clock))
  /\ UNCHANGED <<ledger, nextId, apiKey, clock, app>>

\* time passes
Tick ==
  /\ clock + TickMs <= MaxTicks * TickMs
  /\ clock' = clock + TickMs
  /\ resp' = NoResp /\ finished' = <<>> /\ tradeRes' = NoTradeRes
  /\ UNCHANGED <<ledger, nextId, priceCache, apiKey, req, hist, app>>

\* time passes, in the runs that follow a request across more than one TTL
TickLong ==
  /\ clock + TickMs <= MaxTicksLong * TickMs
  /\ clock' = clock + TickMs
  /\ resp' = NoResp /\ finished' = <<>> /\ tradeRes' = NoTradeRes
  /\ UNCHANGED <<ledger, nextId, priceCache, apiKey, req, hist, app>>

\* line 71: a field of the body is not there
Missing(body) == Undefined \in {body.symbol, body.quantity, body.price, body.type}

\* String(undefined).toUpperCase()
UNDEFINED == <<"U", "N", "D", "E", "F", "I", "N", "E", "D">>

\* lines 69-86 without the test of type at line 72
PostTradeNoTypeTest(body) ==
  /\ IF ~Truthy(body.symbol) \/ ~Truthy(body.quantity) \/ ~Truthy(body.price)
     THEN /\ tradeRes' = [status |-> 400, missing |-> Missing(body)]
          /\ UNCHANGED <<ledger, nextId>>
     ELSE /\ nextId <= MaxTrades
          /\ ledger' = Insert(ledger, nextId,
                              [body EXCEPT !.type = IF @ = Undefined
                                                    THEN Str(UNDEFINED) ELSE @])
          /\ nextId' = nextId + 1
          /\ tradeRes' = [status |-> 200, missing |-> Missing(body)]
  /\ resp' = NoResp /\ finished' = <<>>
  /\ UNCHANGED <<priceCache, apiKey, clock, req, hist, app>>

\* lines 69-86: POST /api/trades.  The response records whether a field of the
\* body was missing.
PostTrade(body) ==
  /\ IF ~Truthy(body.symbol) \/ ~Truthy(body.quantity)
        \/ ~Truthy(body.price) \/ ~Truthy(body.type)
     THEN /\ tradeRes' = [status |-> 400, missing |-> Missing(body)]
          /\ UNCHANGED <<ledger, nextId>>
     ELSE /\ nextId <= MaxTrades
          /\ ledger' = Insert(ledger, nextId, body)
          /\ nextId' = nextId + 1
          /\ tradeRes' = [status |-> 200, missing |-> Missing(body)]
  /\ resp' = NoResp /\ finished' = <<>>
  /\ UNCHANGED <<priceCache, apiKey, clock, req, hist, app>>

\* lines 140-149: DELETE /api/trades/:id
DeleteTrade(id) ==
  /\ ledger' = DeleteWhereId(ledger, id)
  /\ resp' = NoResp /\ finished' = <<>> /\ tradeRes' = NoTradeRes
  /\ UNCHANGED <<nextId, priceCache, apiKey, clock, req, hist, app>>

\* ------------------------------------------- the frontend (App.jsx)
\* String(err) of a request that failed
ErrorText == Str(<<"E", "r", "r", "o", "r">>)

\* what loads the lists: the effect run on mount (0) and the submissions
Submits == 1 .. MaxSubmits
Tasks == {0} \cup Submits

\* what is typed in the symbol field of the form
FormSymbols == {<<>>, <<" ">>, <<"a">>}

\* lines 7-9: the component as first rendered, nothing requested yet.
\* lastTrades is the outcome of the loadTrades call that completed last.
AppInit ==
  [trades |-> "empty", portfolio |-> "null", fetchError |-> Null,
   post |-> [s \in Submits |-> "idle"],
   loadTrades |-> [t \in Tasks |-> "idle"],
   loadPortfolio |-> [t \in Tasks |-> "idle"],
   lastTrades |-> "none"]

\* line 62: !form.symbol || form.symbol.trim() === ""
Blank(symbol) == \A i \in DOMAIN symbol : symbol[i] = " "

\* lines 52-56: the effect run once after the first render starts both loads
useEffect ==
  /\ app.loadTrades[0] = "idle" /\ app.loadPortfolio[0] = "idle"
  /\ app' = [app EXCEPT !.loadTrades[0] = "fetching",
                        !.loadPortfolio[0] = "fetching"]
  /\ UNCHANGED backend

\* lines 25-36 from the answer of GET /api/trades on (ok: the answer is a 2xx
\* with a JSON body); in a submission, line 91 then calls loadPortfolio
loadTrades(t, ok) ==
  /\ app.loadTrades[t] = "fetching"
  /\ app' = [app EXCEPT !.loadTrades[t] = "done",
                        !.trades = IF ok THEN "data" ELSE "empty",
                        !.fetchError = IF ok THEN @ ELSE ErrorText,
                        !.lastTrades = IF ok THEN "ok" ELSE "failed",
                        !.loadPortfolio[t] = IF t \in Submits THEN "fetching" ELSE @]
  /\ UNCHANGED backend

\* lines 38-50 from the answer of GET /api/portfolio on
loadPortfolio(t, ok) ==
  /\ app.loadPortfolio[t] = "fetching"
  /\ app' = [app EXCEPT !.loadPortfolio[t] = "done",
                        !.portfolio = IF ok THEN "data" ELSE "empty",
                        !.fetchError = IF ok THEN Null ELSE ErrorText]
  /\ UNCHANGED backend

\* lines 58-79: the form is submitted; a blank symbol is refused with an
\* alert, otherwise the trade is posted.  The form is there once the component
\* has rendered and its effect has run.
submitTrade(s, symbol) ==
  /\ app.loadTrades[0] # "idle"
  /\ app.post[s] = "idle"
  /\ \A q \in Submits : q < s => app.post[q] # "idle"
  /\ app' = IF Blank(symbol) THEN app ELSE [app EXCEPT !.post[s] = "posting"]
  /\ UNCHANGED backend

\* lines 81-96 from the answer of POST /api/trades on: the lists are reloaded,
\* loadTrades first, or the error is shown
submitTradeResume(s, ok) ==
  /\ app.post[s] = "posting"
  /\ app' = IF ok
            THEN [app EXCEPT !.post[s] = "ok", !.loadTrades[s] = "fetching"]
            ELSE [app EXCEPT !.post[s] = "failed", !.fetchError = ErrorText]
  /\ UNCHANGED backend

\* ------------------------------------------------------ specifications
Body(sym, type) == [symbol |-> Str(sym), quantity |-> Num(Scale),
                     price |-> Num(Scale), type |-> Str(type)]

\* the ledger the database holds when the server starts: one open position
InitLedgers == {Insert(<<>>, 1, Body(<<"A">>, BUY))}

\* ledgers with two open positions, long and short
ViewLedgers ==
  {Insert(Insert(<<>>, 1, Body(<<"A">>, BUY)), 2, Body(<<"B">>, BUY)),
   Insert(Insert(Insert(<<>>, 1, Body(<<"A">>, BUY)), 2, Body(<<"B">>, SELL)),
          3, Body(<<"A">>, BUY))}

InitCommon ==
  /\ tradeRes = NoTradeRes
  /\ priceCache = [k \in Keys |-> Undefined]
  /\ clock = 0
  /\ req = [r \in Requests |-> Idle]
  /\ resp = NoResp
  /\ finished = <<>>
  /\ hist = [k \in Keys |-> [lastIssue |-> NoTime, raced |-> FALSE,
                             lastFail |-> NoTime, failedLast |-> FALSE]]
  /\ app = AppInit

\* the price resolver under concurrent requests, over a ledger that does not
\* change
Init ==
  /\ ledger \in InitLedgers
  /\ nextId = Len(ledger) + 1
  /\ apiKey \in BOOLEAN
  /\ InitCommon

Next ==
  \/ \E r \in Requests : GetPortfolio(r)
  \/ \E r \in Requests, outcome \in Outcomes : FetchReturn(r, outcome)
  \/ Tick

Spec == Init /\ [][Next]_vars

\* the combiner: one request at a time, over several positions
InitView ==
  /\ ledger \in ViewLedgers
  /\ nextId = Len(ledger) + 1
  /\ apiKey \in BOOLEAN
  /\ InitCommon

NextView ==
  \/ \E r \in Requests : (\A q \in Requests : req[q].pc = "idle") /\ GetPortfolio(r)
  \/ \E r \in Requests, outcome \in Outcomes : FetchReturn(r, outcome)
  \/ Tick

SpecView == InitView /\ [][NextView]_vars

\* the combiner, one request at a time, followed for more than one TTL
NextLong ==
  \/ \E r \in Requests : (\A q \in Requests : req[q].pc = "idle") /\ GetPortfolio(r)
  \/ \E r \in Requests, outcome \in Outcomes : FetchReturn(r, outcome)
  \/ TickLong

SpecLong == InitView /\ [][NextLong]_vars

\* the tables the server may find: one open position, of one share or of two
OpenLedgers ==
  InitLedgers
  \cup {Insert(<<>>, 1, [Body(<<"A">>, BUY) EXCEPT !.quantity = Num(2 * Scale)])}

\* the frontend alone, whatever the backend answers
InitApp ==
  /\ ledger = <<>>
  /\ nextId = 1
  /\ apiKey = FALSE
  /\ InitCommon

NextApp ==
  \/ useEffect
  \/ \E t \in Tasks, ok \in BOOLEAN : loadTrades(t, ok)
  \/ \E t \in Tasks, ok \in BOOLEAN : loadPortfolio(t, ok)
  \/ \E s \in Submits, symbol \in FormSymbols : submitTrade(s, symbol)
  \/ \E s \in Submits, ok \in BOOLEAN : submitTradeResume(s, ok)

SpecApp == InitApp /\ [][NextApp]_vars

\* the ledger and the aggregation, with no credential configured
InitLedger ==
  /\ ledger \in OpenLedgers
  /\ nextId = Len(ledger) + 1
  /\ apiKey = FALSE
  /\ InitCommon

NextLedger ==
  \/ \E body \in Bodies : PostTrade(body)
  \/ \E id \in 1 .. MaxTrades : DeleteTrade(id)
  \/ \E r \in Requests : GetPortfolio(r)

SpecLedger == InitLedger /\ [][NextLedger]_vars

\* a row of the trades table as another client of the database wrote it (the
\* symbol not upper-cased)
Row(id, sym, type) ==
  [id |-> id, symbol |-> sym, quantity |-> Scale, price |-> Scale, type |-> type]

\* ledgers that hold one symbol under two spellings: GROUP BY symbol keeps them apart
CaseLedgers ==
  {<<Row(1, <<"a">>, BUY), Row(2, <<"A">>, BUY)>>,
   <<Row(1, <<"A">>, BUY), Row(2, <<"a">>, BUY)>>}

\* the price resolver looked up with several spellings of one symbol, one
\* request at a time
InitCase ==
  /\ ledger \in CaseLedgers
  /\ nextId = Len(ledger) + 1
  /\ apiKey \in BOOLEAN
  /\ InitCommon

SpecCase == InitCase /\ [][NextView]_vars


\* ------------------------------------------------------------- claims
\* the calls of fetchCurrentPrice awaiting the provider
Awaiting == {r \in Requests : req[r].pc = "fetching"}

\* the entry a call found was younger than the TTL at the time the call read
FoundFresh(c) == c.cached # Undefined /\ c.now - c.cached.ts < CACHE_TTL_MS

IsPrice(x) == x.t = "num"

\* C1 as stated: at most one request to the quote provider per symbol in any
\* window of TTL ms, whatever the interleaving: every request sent for a key is
\* at least TTL ms after the previous request sent for that key.
C1_OneFetchPerWindow ==
  \A r \in Awaiting :
    LET c == req[r].pending
    IN c.prevIssue # NoTime => c.now - c.prevIssue >= CACHE_TTL_MS

\* C1 amended: for a symbol no two of whose requests to the provider have
\* overlapped (none was sent while another for that symbol awaited its answer),
\* every request sent is at least TTL ms after the previous one for that symbol.
C1_OneFetchPerWindowSequential ==
  \A r \in Awaiting :
    LET c == req[r].pending
    IN (~hist[c.key].raced /\ c.prevIssue # NoTime)
         => c.now - c.prevIssue >= CACHE_TTL_MS

\* C1 witness: a second request for a symbol is under way, sent a full TTL after
\* the first, and no two requests for the symbol have overlapped
C1_Witness ==
  \E r \in Awaiting :
    LET c == req[r].pending
    IN /\ ~hist[c.key].raced
       /\ c.prevIssue # NoTime
       /\ c.now - c.prevIssue >= CACHE_TTL_MS
       /\ c.cached # Undefined

\* C2: a call that finds an entry younger than the TTL returns that entry's
\* price, sends nothing to the provider and leaves the entry as it was; it is
\* never left awaiting the provider.
C2_FreshnessRule ==
  /\ \A i \in DOMAIN finished :
       LET c == finished[i]
       IN FoundFresh(c) =>
            /\ c.ret = c.cached.price
            /\ c.calls = 0
            /\ c.after = c.cached
  /\ \A r \in Awaiting : ~FoundFresh(req[r].pending)

\* C2 witness: a call has returned a cached price after time has passed
C2_Witness ==
  \E i \in DOMAIN finished :
    LET c == finished[i]
    IN FoundFresh(c) /\ IsPrice(c.ret) /\ c.now > c.cached.ts

\* the parts of C3 about two lookups: a call that sent a request did so at least
\* TTL ms after the previous request for its key
SpacedFromPrevious(c) ==
  (c.calls = 1 /\ c.prevIssue # NoTime) => c.now - c.prevIssue >= CACHE_TTL_MS

\* C3 as stated, for symbols whose lookups have not overlapped: a call that
\* finds no entry, or one of age TTL or more, sends exactly one request to the
\* provider; a call within TTL of a request sends none.
C3_MissFetchesOnce ==
  /\ \A i \in DOMAIN finished :
       LET c == finished[i]
       IN ~hist[c.key].raced =>
            /\ ~FoundFresh(c) => c.calls = 1
            /\ FoundFresh(c) => c.calls = 0
            /\ SpacedFromPrevious(c)

\* C3 amended: as C3, with "exactly one request" holding when a credential is
\* configured, and no request at all when none is.
C3_MissFetchesOnceWithCredential ==
  /\ \A i \in DOMAIN finished :
       LET c == finished[i]
       IN ~hist[c.key].raced =>
            /\ ~FoundFresh(c) => c.calls = (IF apiKey THEN 1 ELSE 0)
            /\ FoundFresh(c) => c.calls = 0
            /\ SpacedFromPrevious(c)

\* C3 witness: with a credential, a call that found an expired entry has sent
\* its one request, a full TTL after the previous one
C3_Witness ==
  \E i \in DOMAIN finished :
    LET c == finished[i]
    IN /\ apiKey /\ ~hist[c.key].raced
       /\ c.cached # Undefined /\ ~FoundFresh(c)
       /\ c.calls = 1 /\ c.prevIssue # NoTime

\* what C4 says of the failing call itself: it returns null and leaves
\* {price: null, ts: now}
FailureStoresAbsent(c) ==
  c.outcome.k = "raise" => (c.ret = Null /\ c.after = [price |-> Null, ts |-> c.now])

\* what C4 says of a later call, started within TTL of a failed one for its key
AfterFailureAbsent(c) ==
  (c.lastFail # NoTime /\ c.now - c.lastFail < CACHE_TTL_MS)
     => (c.ret = Null /\ c.calls = 0)

\* C4 as stated: a call whose request fails returns null and stores
\* {price: null, ts: now}, and every call for that key started after the failure
\* and within TTL of it returns null without a request.
C4_FailureIsAbsent ==
  /\ \A i \in DOMAIN finished :
       FailureStoresAbsent(finished[i]) /\ AfterFailureAbsent(finished[i])
  /\ \A r \in Awaiting :
       LET c == req[r].pending
       IN ~(c.lastFail # NoTime /\ c.now - c.lastFail < CACHE_TTL_MS)

\* C4 amended: the same, the part about later calls holding for a symbol no two
\* of whose requests to the provider have overlapped.
C4_FailureIsAbsentSequential ==
  /\ \A i \in DOMAIN finished :
       LET c == finished[i]
       IN /\ FailureStoresAbsent(c)
          /\ ~hist[c.key].raced => AfterFailureAbsent(c)
  /\ \A r \in Awaiting :
       LET c == req[r].pending
       IN ~hist[c.key].raced
            => ~(c.lastFail # NoTime /\ c.now - c.lastFail < CACHE_TTL_MS)

\* C4 witness: after a failed request, time has passed and a later call within
\* TTL has returned null from the cache
C4_Witness ==
  \E i \in DOMAIN finished :
    LET c == finished[i]
    IN /\ ~hist[c.key].raced
       /\ c.lastFail # NoTime /\ c.now - c.lastFail < CACHE_TTL_MS
       /\ c.now > c.lastFail
       /\ c.ret = Null /\ c.calls = 0

\* C5: whatever the provider's payload, what a call returns and stores as a
\* price is null or a finite number.
C5_OnlyNumericPrice ==
  /\ \A i \in DOMAIN finished :
       LET c == finished[i]
       IN c.ret.t \in {"null", "num"} /\ c.after.price.t \in {"null", "num"}
  /\ \A k \in Keys :
       priceCache[k] # Undefined => priceCache[k].price.t \in {"null", "num"}

\* C6: without a credential a call that finds no fresh entry sends nothing,
\* stores {price: null, ts: now} and returns null, and no request to the provider
\* is ever sent or awaited.
C6_NoCredentialNoCall ==
  ~apiKey =>
    /\ \A i \in DOMAIN finished :
         LET c == finished[i]
         IN ~FoundFresh(c) =>
              /\ c.calls = 0
              /\ c.ret = Null
              /\ c.after = [price |-> Null, ts |-> c.now]
    /\ Awaiting = {}
    /\ \A k \in Keys : hist[k].lastIssue = NoTime

\* C6 witness: without a credential, a call has found an expired entry
C6_Witness ==
  /\ ~apiKey
  /\ \E i \in DOMAIN finished :
       LET c == finished[i]
       IN c.cached # Undefined /\ ~FoundFresh(c) /\ c.ret = Null


\* the rows a handler has built: those of the response just sent and those of
\* the handlers still in their loop
BuiltRows ==
  {resp.portfolio[i] : i \in DOMAIN resp.portfolio}
  \cup UNION {{req[r].portfolio[i] : i \in DOMAIN req[r].portfolio} : r \in Requests}

\* C7: in every row, marketValue is null exactly when currentPrice is null, and
\* is a number whenever currentPrice is a number.
C7_MarketValueAbsentIffPriceAbsent ==
  \A row \in BuiltRows :
    /\ (row.marketValue = Null) <=> (row.currentPrice = Null)
    /\ IsPrice(row.currentPrice) => IsPrice(row.marketValue)

\* C7 witness: a response with a row of unknown price and a row priced at 0
C7_Witness ==
  /\ resp.status = 200
  /\ \E i, j \in DOMAIN resp.portfolio :
       /\ resp.portfolio[i].currentPrice = Null
       /\ resp.portfolio[i].marketValue = Null
       /\ resp.portfolio[j].currentPrice = Num(0)
       /\ resp.portfolio[j].marketValue = Num(0)

\* the sum of the marketValues that are numbers, over the rows with index in I
RECURSIVE SumComputable(_, _)
SumComputable(portfolio, I) ==
  IF I = {} THEN 0
  ELSE LET i == CHOOSE j \in I : TRUE
       IN (IF IsPrice(portfolio[i].marketValue) THEN portfolio[i].marketValue.v ELSE 0)
          + SumComputable(portfolio, I \ {i})

\* C8: totalValue of a response is the sum of the marketValues that are numbers,
\* every other row counting for 0.
C8_TotalIsSumOfComputable ==
  resp.status = 200 =>
    resp.totalValue = Num(SumComputable(resp.portfolio, DOMAIN resp.portfolio))

\* C8 witness: a response with a row of unknown price, whose total is the
\* non-zero marketValue of its other row
C8_Witness ==
  /\ resp.status = 200
  /\ \E i, j \in DOMAIN resp.portfolio :
       /\ resp.portfolio[i].marketValue = Null
       /\ IsPrice(resp.portfolio[j].marketValue)
       /\ resp.portfolio[j].marketValue.v # 0
       /\ resp.totalValue = resp.portfolio[j].marketValue

\* the sum of the quantities of the trades with index in I
RECURSIVE SumQuantity(_, _)
SumQuantity(trades, I) ==
  IF I = {} THEN 0
  ELSE LET i == CHOOSE j \in I : TRUE
       IN trades[i].quantity + SumQuantity(trades, I \ {i})

Buys(trades, sym) ==
  {i \in DOMAIN trades : trades[i].symbol = sym /\ trades[i].type = BUY}
Sells(trades, sym) ==
  {i \in DOMAIN trades : trades[i].symbol = sym /\ trades[i].type = SELL}
NotBuys(trades, sym) ==
  {i \in DOMAIN trades : trades[i].symbol = sym /\ trades[i].type # BUY}

\* C9: in every response, the netQty of a row is the sum of the BUY quantities
\* minus the sum of the SELL quantities of its symbol in the ledger the query
\* read, whatever the order of the records.
C9_NetQtyIsBuysMinusSells ==
  resp.status = 200 =>
    \A i \in DOMAIN resp.portfolio :
      LET row == resp.portfolio[i]
      IN row.netQty = Num(SumQuantity(resp.asOf, Buys(resp.asOf, row.symbol))
                          - SumQuantity(resp.asOf, Sells(resp.asOf, row.symbol)))

\* the net quantity the aggregation computes: BUY records add, all others subtract
SignedNet(trades, sym) ==
  SumQuantity(trades, Buys(trades, sym)) - SumQuantity(trades, NotBuys(trades, sym))

CallPairs == {p \in (DOMAIN finished) \X (DOMAIN finished) : p[1] < p[2]}

SameSymbol(c, d) == ToUpperCase(c.symbol) = ToUpperCase(d.symbol)

\* C11: every spelling of a symbol reads and writes the one entry under the
\* upper-cased symbol: the cache has entries under upper-cased keys only, a call
\* that follows within TTL a call for another spelling finds the entry that call
\* left, returns the same price and sends no request, so the two send at most
\* one; and a request is at least TTL ms after the previous request for any
\* spelling of its symbol.
C11_CaseInsensitive ==
  /\ \A k \in Keys : priceCache[k] # Undefined => k = ToUpperCase(k)
  /\ \A i \in DOMAIN finished :
       /\ finished[i].key = ToUpperCase(finished[i].symbol)
       /\ SpacedFromPrevious(finished[i])
  /\ \A p \in CallPairs :
       LET c == finished[p[1]]
           d == finished[p[2]]
       IN (SameSymbol(c, d) /\ d.now - c.now < CACHE_TTL_MS) =>
            /\ d.cached = c.after
            /\ d.calls = 0 /\ c.calls <= 1
            /\ d.ret = c.ret

\* C11 witness: a call for "a" has fetched a price and, later and within TTL,
\* a call for "A" has returned that price from the cache
C11_Witness ==
  \E p \in CallPairs :
    LET c == finished[p[1]]
        d == finished[p[2]]
    IN /\ c.symbol = <<"a">> /\ d.symbol = <<"A">>
       /\ c.calls = 1 /\ d.calls = 0
       /\ d.now > c.now /\ d.now - c.now < CACHE_TTL_MS
       /\ IsPrice(d.ret) /\ d.ret = c.ret

\* the calls of the last segment for key k
CallsOf(k) == {i \in DOMAIN finished : finished[i].key = k}

\* C12: a refresh attempt (a call that found no fresh entry) leaves
\* {price: what it returns, ts: its now} as the entry of its key, null when the
\* request failed or was not sent for want of a credential; the entry of a key is
\* the one its last call left; and while the most recently completed request for
\* a key is a failed one, the entry holds null, and a call that started then and
\* sent no request returned null.
C12_RefreshOverwrites ==
  /\ \A i \in DOMAIN finished :
       LET c == finished[i]
       IN /\ ~FoundFresh(c) =>
               /\ c.after = [price |-> c.ret, ts |-> c.now]
               /\ (c.outcome.k = "raise" \/ c.calls = 0) => c.ret = Null
          /\ (c.failedLast /\ c.calls = 0) => c.ret = Null
  /\ \A k \in Keys :
       /\ CallsOf(k) # {} =>
            priceCache[k] = finished[CHOOSE i \in CallsOf(k) :
                                       \A j \in CallsOf(k) : j <= i].after
       /\ hist[k].failedLast =>
            (priceCache[k] # Undefined /\ priceCache[k].price = Null)

\* C12 witness: a call found an expired entry holding a price, its request
\* failed, and the entry now holds null with the call's timestamp
C12_Witness ==
  \E i \in DOMAIN finished :
    LET c == finished[i]
    IN /\ c.outcome.k = "raise"
       /\ c.cached # Undefined /\ IsPrice(c.cached.price)
       /\ c.now > c.cached.ts
       /\ priceCache[c.key] = [price |-> Null, ts |-> c.now]
       /\ hist[c.key].failedLast

\* C13: in every response, a row whose symbol had an entry younger than the TTL
\* when the handler started reports the price that entry held then.
C13_SnapshotAtStart ==
  resp.status = 200 =>
    \A i \in DOMAIN resp.portfolio :
      LET row == resp.portfolio[i]
          e == resp.start.cache[ToUpperCase(row.symbol)]
      IN (e # Undefined /\ resp.start.now - e.ts < CACHE_TTL_MS)
           => row.currentPrice = e.price

\* a response all of whose lookups were answered by entries younger than the
\* TTL, with trace the calls of the segment that sent it
AllHits(trace, response) ==
  /\ response.status = 200
  /\ Len(trace) = Len(response.portfolio)
  /\ \A i \in DOMAIN trace : FoundFresh(trace[i])

\* the keys GET /api/portfolio looks up over a ledger
Involved(trades) ==
  {ToUpperCase(Aggregate(trades)[i].symbol) : i \in DOMAIN Aggregate(trades)}

\* every entry the ledger involves is younger than the TTL at time t
StaysFresh(t) ==
  \A k \in Involved(ledger) :
    priceCache[k] # Undefined /\ t - priceCache[k].ts < CACHE_TTL_MS

\* now and the times up to one TTL from now
LaterTimes == {clock + n * TickMs : n \in 0 .. TicksPerTTL}

\* a GET /api/portfolio run at time t on the ledger and the cache as they are
Again(t) == RunLoop(1, Aggregate(ledger), 1, <<>>, <<>>, priceCache, hist, t)

\* after a response computed from fresh entries alone, the computation run again
\* on the same ledger, at any time at which the entries are still fresh, gives
\* the same rows and total, sends no request and leaves the cache as it is
SameAgain ==
  (AllHits(finished, resp) /\ resp.asOf = ledger) =>
    \A t \in LaterTimes :
      StaysFresh(t) =>
        /\ Again(t).pc = "done"
        /\ Again(t).portfolio = resp.portfolio
        /\ TotalValue(Again(t).portfolio) = resp.totalValue
        /\ \A j \in DOMAIN Again(t).trace : Again(t).trace[j].calls = 0
        /\ Again(t).cache = priceCache

\* two responses in a row, both computed from fresh entries alone over the same
\* ledger, are equal, and the second sends no request and leaves the cache as
\* it is
SameInARow ==
  (AllHits(finished, resp) /\ AllHits(finished', resp') /\ resp'.asOf = resp.asOf) =>
    /\ resp'.portfolio = resp.portfolio
    /\ resp'.totalValue = resp.totalValue
    /\ \A j \in DOMAIN finished' : finished'[j].calls = 0
    /\ priceCache' = priceCache
    /\ Awaiting' = Awaiting

\* C14: two computations of the portfolio over an unchanged ledger, during
\* which the entries of its symbols stay fresh, return the same rows (same
\* currentPrice and marketValue) and the same totalValue, and send no request.
C14_Idempotent == []SameAgain /\ [][SameInARow]_vars

\* C14 witness: a response over two positions computed from the cache alone,
\* some time after the prices were fetched, one of the prices a number
C14_Witness ==
  /\ AllHits(finished, resp)
  /\ Len(resp.portfolio) = 2
  /\ \E i \in DOMAIN finished :
       IsPrice(finished[i].ret) /\ finished[i].now > finished[i].cached.ts
  /\ StaysFresh(clock)

\* C15: every record of the ledger has an upper-case symbol, a positive
\* quantity, a positive price and type BUY or SELL.
C15_AdmittedRecordsValid ==
  \A i \in DOMAIN ledger :
    /\ ledger[i].symbol = ToUpperCase(ledger[i].symbol)
    /\ ledger[i].quantity > 0
    /\ ledger[i].price > 0
    /\ ledger[i].type \in {BUY, SELL}

\* what C16 says of a step that answers a submission with a missing field
RejectedUntouched ==
  (tradeRes'.status # 0 /\ tradeRes'.missing) =>
    /\ tradeRes'.status = 400
    /\ ledger' = ledger
    /\ Aggregate(ledger') = Aggregate(ledger)
    /\ priceCache' = priceCache

\* C16: a submission with symbol, quantity, price or type missing is answered
\* with status 400, and the ledger, the aggregation over it and the price cache
\* are after it what they were before.
C16_MissingFieldRejected == [][RejectedUntouched]_vars

\* C16 witness: a submission with a missing field has been rejected while the
\* ledger holds a record and the cache an entry
C16_Witness ==
  /\ tradeRes.status = 400 /\ tradeRes.missing
  /\ ledger # <<>>
  /\ \E k \in Keys : priceCache[k] # Undefined

\* the records of a symbol in a ledger, of whatever type
RecordsOf(trades, sym) == {i \in DOMAIN trades : trades[i].symbol = sym}

\* the sum of the prices of the trades with index in I
RECURSIVE SumOfPrices(_, _)
SumOfPrices(trades, I) ==
  IF I = {} THEN 0
  ELSE LET i == CHOOSE j \in I : TRUE
       IN trades[i].price + SumOfPrices(trades, I \ {i})

\* a is x / n to the nearest unit of the four-decimal resolution
IsMean(a, x, n) == 2 * a * n - 2 * x <= n /\ 2 * x - 2 * a * n <= n

\* C17: in every response, the avgPrice of a row is the sum of the prices of
\* all the records of its symbol in the ledger the query read, BUY, SELL or
\* other, divided by their number, whatever their quantities.
C17_AveragePriceIsMean ==
  resp.status = 200 =>
    \A i \in DOMAIN resp.portfolio :
      LET row == resp.portfolio[i]
          I == RecordsOf(resp.asOf, row.symbol)
      IN /\ IsPrice(row.avgPrice)
         /\ IsMean(row.avgPrice.v, SumOfPrices(resp.asOf, I), Cardinality(I))

\* C17 witness: a response over a BUY of 2 at 1 and a SELL of 1 at 2 of one
\* symbol reports the average price 1.5
C17_Witness ==
  /\ resp.status = 200
  /\ Len(resp.asOf) = 2 /\ Len(resp.portfolio) = 1
  /\ resp.asOf[1].symbol = resp.asOf[2].symbol
  /\ resp.asOf[1].type = BUY /\ resp.asOf[1].quantity = 2 * Scale
  /\ resp.asOf[1].price = Scale
  /\ resp.asOf[2].type = SELL /\ resp.asOf[2].quantity = Scale
  /\ resp.asOf[2].price = 2 * Scale
  /\ resp.portfolio[1].avgPrice = Num((3 * Scale) \div 2)

\* what C18 says of a step: no entry disappears or gets an older timestamp
TimestampsGrow ==
  \A k \in Keys :
    priceCache[k] # Undefined =>
      (priceCache'[k] # Undefined /\ priceCache'[k].ts >= priceCache[k].ts)

\* C18: the timestamp of the entry of a symbol never decreases, whatever the
\* interleaving of the lookups.
C18_TimestampNeverDecreases == [][TimestampsGrow]_vars

\* C19: a call that returns without a request to the provider returns the price
\* of the entry it leaves, whose timestamp is less than TTL ms before the time
\* the call read; and the timestamp a call writes is the time that call read
\* when it started.  So no entry of age TTL or more is served.
C19_StalenessBound ==
  \A i \in DOMAIN finished :
    LET c == finished[i]
    IN /\ c.calls = 0 =>
            /\ c.after # Undefined
            /\ c.ret = c.after.price
            /\ c.after.ts <= c.now
            /\ c.now - c.after.ts < CACHE_TTL_MS
       /\ c.after # c.cached => c.after.ts = c.now

\* C19 witness: a call has served a price from an entry one tick short of the
\* TTL, written by a lookup whose answer arrived after a later one had started
C19_Witness ==
  \E i \in DOMAIN finished :
    LET c == finished[i]
    IN /\ c.calls = 0 /\ c.cached # Undefined
       /\ c.now - c.cached.ts = CACHE_TTL_MS - TickMs
       /\ IsPrice(c.ret)
       /\ hist[c.key].raced

\* no request of the frontend is awaiting its answer, and the loads started on
\* mount have both completed
Completion ==
  /\ app.loadTrades[0] = "done" /\ app.loadPortfolio[0] = "done"
  /\ \A t \in Tasks : app.loadTrades[t] # "fetching" /\ app.loadPortfolio[t] # "fetching"
  /\ \A s \in Submits : app.post[s] # "posting"

\* C20: once the loads have completed, in whatever order, fetchError is not
\* null if the loadTrades call that completed last failed.
C20_TradesFailureShown ==
  (Completion /\ app.lastTrades = "failed") => app.fetchError # Null

====
